---- MODULE Spec2Model ----
(***************************************************************************)
(* The library catalog of mus (src/src/db.rs): the library, track and      *)
(* playlist_tracks tables behind one rusqlite Connection, and              *)
(* Database::scan_library taken statement by statement, so that every      *)
(* committed intermediate state of a scan is a state of the model.         *)
(***************************************************************************)
EXTENDS Integers, Sequences, FiniteSets, TLC

VARIABLES
    library,          \* rows of table library: [id, path, name]
    track,            \* rows of table track: [id, library_id, path, tag, rating]
    playlist_tracks,  \* rows of table playlist_tracks: [playlist_id, track_id]
    scan_results,     \* the connection's temporary table scan_results: <<>> or <<its rows, in order>>
    fs,               \* the file system: what is at each canonical path
    pc,               \* position of the one caller holding &mut Database
    lib,              \* scan_library's argument `library`
    full_rescan,      \* scan_library's argument `full_rescan`
    new_tracks,       \* scan_library's local `new_tracks`
    res,              \* scan_library's local `res`
    ret,              \* the value the last finished call returned
    pre_track,        \* table track when the running scan was called
    pre_playlist,     \* table playlist_tracks when the running scan was called
    inserted,         \* ids of the track rows the running scan has inserted
    walked,           \* <<>> before the walk has completed, then <<set of walked paths>>
    unresolved,       \* <<>> or <<path>>: the walked entry whose canonicalize() returned Err
    writers,          \* the callers holding the write guard of the RwLock around the Database
    read_track,       \* <<>> or <<Track>>: the Track value the user interface holds
    read_out,         \* <<>> or <<[call, field, value]>>: the last read of a field of read_track
    last_incr         \* <<>> or <<<<id, walk completed, ok>>>>: the incremental scan that returned last

vars == <<library, track, playlist_tracks, scan_results, fs,
          pc, lib, full_rescan, new_tracks, res, ret,
          pre_track, pre_playlist, inserted, walked, unresolved, writers,
          read_track, read_out, last_incr>>

(***************************************************************************)
(* Bounds of the model.                                                    *)
(***************************************************************************)
MaxTrackId == 2
MaxLibraries == 3
MaxMemberships == 1
MaxRated == 1

(***************************************************************************)
(* The inputs: directories, file paths, file contents, names.              *)
(***************************************************************************)
NonePath == "NONE"
LibraryRoots == {"/m"}
Names == {"Music"}
Paths == {"/m/a", "/m/b"}
RootOf(p) == "/m"
Tags == {"t1", "t2"}
FileKinds(p) == IF p = "/m/a" THEN {"absent", "junk"} \cup Tags ELSE {"absent", "t1"}
Playlists == {1}
MainCaller == "main"
Callers == {"main", "worker"}
UserRatings == {5}
RatedPaths == {"/m/a"}

None == <<>>
Some(x) == <<x>>

(***************************************************************************)
(* Library::path                                                           *)
(***************************************************************************)
LibraryPath(l) == IF l.path = NonePath THEN None ELSE Some(l.path)

(***************************************************************************)
(* DatabaseError and Result                                                *)
(***************************************************************************)
Ok(v) == [ok |-> TRUE, val |-> v, err |-> "none"]
Err(e) == [ok |-> FALSE, val |-> <<>>, err |-> e]
NoReturn == [ok |-> FALSE, val |-> <<>>, err |-> "not returned"]

SeqToSet(s) == {s[i] : i \in 1..Len(s)}
Orders(S) == {s \in [1..Cardinality(S) -> S] : \A i, j \in 1..Cardinality(S) : s[i] = s[j] => i = j}

(***************************************************************************)
(* The schema, create.sql                                                  *)
(***************************************************************************)
SentinelLibrary == [id |-> 1, path |-> NonePath, name |-> "Individual Tracks"]
TrackKeyColumn == "id"

TracksOf(tbl, id) == {t \in tbl : t.library_id = id}
PathsOf(tbl, id) == {t.path : t \in TracksOf(tbl, id)}

(***************************************************************************)
(* MetadataExtractor: taglib File::new, file.tag(), file.audioproperties() *)
(***************************************************************************)
ExtractAnyFile(path) ==
    IF fs[path] = "absent" THEN None ELSE Some(IF fs[path] \in Tags THEN fs[path] ELSE "t1")

Extract(path) == IF fs[path] \in Tags THEN Some(fs[path]) ELSE None

(***************************************************************************)
(* WalkDir::new(&library.path).follow_links(true), regular files only,     *)
(* canonicalized and deduplicated                                          *)
(***************************************************************************)
WalkFiles(root) == {p \in Paths : RootOf(p) = root /\ fs[p] # "absent"}

(***************************************************************************)
(* The sequences of entries a walk can yield, each entry given by its      *)
(* canonical path: the regular files under the root and the symbolic links *)
(* to some of them, in whatever order the directory lists them (WalkDir    *)
(* without sort_by).                                                       *)
(***************************************************************************)
Entries(root, linked) ==
    LET files == WalkFiles(root)
        n == Cardinality(files) + Cardinality(linked)
    IN  {e \in [1..n -> files] :
            \A f \in files :
                Cardinality({i \in 1..n : e[i] = f}) = IF f \in linked THEN 2 ELSE 1}

PushAlways(v, file) == Append(v, file)

PushNew(v, file) == IF file \in SeqToSet(v) THEN v ELSE Append(v, file)

RECURSIVE CollectPaths(_, _)
CollectPaths(entries, v) ==
    IF entries = <<>> THEN v
    ELSE CollectPaths(Tail(entries), PushNew(v, Head(entries)))

(***************************************************************************)
(* The two statements of the full-rescan transaction.  Table track has no  *)
(* column track_id, so in the subquery the name is the outer               *)
(* playlist_tracks.track_id: the subquery yields the row's own track_id    *)
(* once per track row of the library.                                      *)
(***************************************************************************)
DeletePlaylistTracksSkipped(pt, trk, id) == pt

DeletePlaylistTracks(pt, trk, id) ==
    IF TrackKeyColumn = "track_id"
    THEN {m \in pt : m.track_id \notin {t.id : t \in TracksOf(trk, id)}}
    ELSE {m \in pt : m.track_id \notin {m.track_id : t \in TracksOf(trk, id)}}

DeleteTracksUnfiltered(trk, id) == {}

DeleteTracks(trk, id) == {t \in trk : t.library_id # id}

(***************************************************************************)
(* The incremental transaction: tx.prepare compiles the statement text,    *)
(* and fails on text that is not a statement of SQL.                       *)
(***************************************************************************)
MissingTracksQueryParses == FALSE
RemoveDuplicatesQueryParses == FALSE

CreateScanResults(sr) ==
    IF sr # None THEN [ok |-> FALSE, table |-> sr] ELSE [ok |-> TRUE, table |-> Some(<<>>)]

InsertScanResults(sr, files) == Some(sr[1] \o files)

(***************************************************************************)
(* The two SELECTs have no ORDER BY: their rows come in the order of the   *)
(* table or of whatever index of the schema the engine scans, so every     *)
(* order is an outcome.                                                    *)
(***************************************************************************)
RemoveMissingTracks(trk, sr, l, r) ==
    IF ~MissingTracksQueryParses
    THEN {[ok |-> FALSE, track |-> trk, res |-> r]}
    ELSE LET missing == PathsOf(trk, l.id) \ SeqToSet(sr[1])
         IN  {[ok |-> TRUE, track |-> {t \in trk : t.path \notin missing},
               res |-> r \o order] : order \in Orders(missing)}

SelectNewPaths(trk, sr) ==
    IF ~RemoveDuplicatesQueryParses
    THEN {[ok |-> FALSE, paths |-> <<>>]}
    ELSE LET fresh == {p \in SeqToSet(sr[1]) : ~\E t \in trk : t.path = p}
         IN  {[ok |-> TRUE, paths |-> order] : order \in Orders(fresh)}

IncrementalTx ==
    LET created == CreateScanResults(scan_results)
        filled == InsertScanResults(created.table, new_tracks)
    IN  UNION {
          {IF created.ok /\ removed.ok /\ selected.ok
           THEN [ok |-> TRUE, track |-> removed.track, scan_results |-> filled,
                 res |-> removed.res, new_tracks |-> selected.paths]
           ELSE [ok |-> FALSE, track |-> track, scan_results |-> scan_results,
                 res |-> removed.res, new_tracks |-> new_tracks] :
              selected \in SelectNewPaths(removed.track, filled)} :
          removed \in RemoveMissingTracks(track, filled, lib, res)}

(***************************************************************************)
(* The INSERT INTO track statement                                         *)
(***************************************************************************)
NewTrackRowUngrouped(id, l, path, tag) ==
    [id |-> id, library_id |-> SentinelLibrary.id, path |-> path, tag |-> tag, rating |-> None]

NewTrackRowRated(id, l, path, tag) ==
    [id |-> id, library_id |-> l.id, path |-> path, tag |-> tag, rating |-> Some(0)]

NewTrackRow(id, l, path, tag) ==
    [id |-> id, library_id |-> l.id, path |-> path, tag |-> tag, rating |-> None]

(***************************************************************************)
(* The id the store gives an inserted track row: above every id in the     *)
(* table (the largest id plus one, or a later one when the store never     *)
(* reuses the id of a deleted row), leaving room for the rows still to be  *)
(* inserted by the scan.                                                   *)
(***************************************************************************)
NextTrackIds(trk, pending) ==
    {i \in 1..MaxTrackId : (\A t \in trk : t.id < i) /\ i + pending <= MaxTrackId}

(***************************************************************************)
(* What the insert loop does with a path whose extraction failed: nothing; *)
(* the loop goes on and the scan's result so far stands.                   *)
(***************************************************************************)
ExtractFailedPropagates(r) == [pc |-> "scan_returned", ret |-> Err("ExtractError")]

ExtractFailed(r) == [pc |-> "insert", ret |-> r]

PendingMedia(files) == Cardinality({i \in 1..Len(files) : Extract(files[i]) # None})

(***************************************************************************)
(* The cap on the ids: a scan is started only when the ids up to           *)
(* MaxTrackId suffice for the rows it is going to insert.                  *)
(***************************************************************************)
IdsSuffice(l, f) ==
    LET kept == IF f THEN DeleteTracks(track, l.id) ELSE track
        media == {p \in WalkFiles(l.path) : Extract(p) # None}
        todo == IF f THEN media ELSE {p \in media : ~\E t \in track : t.path = p}
    IN  todo # {} => NextTrackIds(kept, Cardinality(todo) - 1) # {}

(***************************************************************************)
(* Initial state: Database::new on a fresh data.sq3                        *)
(***************************************************************************)
Init ==
    /\ library = {SentinelLibrary}
    /\ track = {}
    /\ playlist_tracks = {}
    /\ scan_results = None
    /\ fs = [p \in Paths |-> "absent"]
    /\ pc = "idle"
    /\ lib = SentinelLibrary
    /\ full_rescan = FALSE
    /\ new_tracks = <<>>
    /\ res = <<>>
    /\ ret = NoReturn
    /\ pre_track = {}
    /\ pre_playlist = {}
    /\ inserted = {}
    /\ walked = None
    /\ unresolved = None
    /\ writers = {}
    /\ read_track = None
    /\ read_out = None
    /\ last_incr = None

db == <<library, track, playlist_tracks, scan_results>>
env == <<fs>>
locals == <<lib, full_rescan, new_tracks, res, pre_track, pre_playlist, inserted, walked, unresolved>>
lock == <<writers>>
reader == <<read_track, read_out>>

(***************************************************************************)
(* RwLock<Database>::write: a &mut Database is had only through the write  *)
(* guard, which is granted when no guard is held.                          *)
(***************************************************************************)
TryWriteUnguarded(w) == TRUE

TryWrite(w) == w = {}

(***************************************************************************)
(* Database::add_library                                                   *)
(***************************************************************************)
NextLibraryId == 1 + CHOOSE m \in {l.id : l \in library} : \A l \in library : l.id <= m

SelectLibraryId(tbl, name, path) ==
    LET ids == {l.id : l \in {x \in tbl : x.name = name /\ x.path = path}}
    IN  CHOOSE i \in ids : \A j \in ids : i <= j

AddLibrary(c, path, name) ==
    /\ pc = "idle"
    /\ TryWrite(writers)
    /\ writers' = writers \cup {c}
    /\ Cardinality(library) < MaxLibraries
    /\ LET rows == library \cup {[id |-> NextLibraryId, path |-> path, name |-> name]}
       IN  /\ library' = rows
           /\ ret' = Ok([id |-> SelectLibraryId(rows, name, path), path |-> path, name |-> name])
    /\ pc' = "add_returned"
    /\ last_incr' = None
    /\ UNCHANGED <<track, playlist_tracks, scan_results, env, locals>>
    /\ UNCHANGED reader

AddLibraryReadFails(c, path, name) ==
    /\ pc = "idle"
    /\ TryWrite(writers)
    /\ writers' = writers \cup {c}
    /\ Cardinality(library) < MaxLibraries
    /\ library' = library \cup {[id |-> NextLibraryId, path |-> path, name |-> name]}
    /\ ret' = Err("SqliteError")
    /\ pc' = "add_returned"
    /\ last_incr' = None
    /\ UNCHANGED <<track, playlist_tracks, scan_results, env, locals>>
    /\ UNCHANGED reader

AddLibraryFails(c, path, name) ==
    /\ pc = "idle"
    /\ TryWrite(writers)
    /\ writers' = writers \cup {c}
    /\ ret' = Err("SqliteError")
    /\ pc' = "add_returned"
    /\ last_incr' = None
    /\ UNCHANGED <<db, env, locals>>
    /\ UNCHANGED reader

(***************************************************************************)
(* Database::scan_library                                                  *)
(***************************************************************************)
Called(c, l, f) ==
    /\ TryWrite(writers)
    /\ writers' = writers \cup {c}
    /\ IdsSuffice(l, f)
    /\ lib' = l
    /\ full_rescan' = f
    /\ pre_track' = track
    /\ pre_playlist' = playlist_tracks
    /\ last_incr' = IF f THEN None ELSE last_incr
    /\ UNCHANGED reader

ScanLibraryFull(c, l) ==
    /\ Called(c, l, TRUE)
    /\ playlist_tracks' = DeletePlaylistTracks(playlist_tracks, track, l.id)
    /\ track' = DeleteTracks(track, l.id)
    /\ pc' = "walk"
    /\ UNCHANGED <<library, scan_results, env, new_tracks, res, inserted, walked, unresolved, ret>>

ScanLibraryFullFails(c, l) ==
    /\ Called(c, l, TRUE)
    /\ ret' = Err("SqliteError")
    /\ pc' = "scan_returned"
    /\ UNCHANGED <<db, env, new_tracks, res, inserted, walked, unresolved>>

ScanLibraryIncremental(c, l) ==
    /\ Called(c, l, FALSE)
    /\ pc' = "walk"
    /\ UNCHANGED <<db, env, new_tracks, res, inserted, walked, unresolved, ret>>

WalkLibrary ==
    /\ pc = "walk"
    /\ \E linked \in SUBSET WalkFiles(lib.path) :
          \E entries \in Entries(lib.path, linked) :
              new_tracks' = CollectPaths(entries, <<>>)
    /\ walked' = Some(WalkFiles(lib.path))
    /\ pc' = IF full_rescan THEN "prepare" ELSE "dedup"
    /\ UNCHANGED <<db, env, lib, full_rescan, res, pre_track, pre_playlist, inserted,
                   unresolved, ret, lock, last_incr>>
    /\ UNCHANGED reader

(***************************************************************************)
(* canonicalize().unwrap() on an entry whose resolution fails: the thread  *)
(* panics inside the loop, and the call's locals go with its stack.        *)
(***************************************************************************)
WalkLibraryPanics ==
    /\ pc = "walk"
    /\ \E p \in WalkFiles(lib.path) : unresolved' = Some(p)
    /\ pc' = "panicked"
    /\ lib' = SentinelLibrary
    /\ full_rescan' = FALSE
    /\ pre_track' = {}
    /\ pre_playlist' = {}
    /\ last_incr' = None
    /\ UNCHANGED <<db, env, new_tracks, res, inserted, walked, ret, lock>>
    /\ UNCHANGED reader

WalkLibraryFails ==
    /\ pc = "walk"
    /\ ret' = Err("WalkDirError")
    /\ pc' = "scan_returned"
    /\ UNCHANGED <<db, env, locals, lock, last_incr>>
    /\ UNCHANGED reader

RemoveDuplicates ==
    /\ pc = "dedup"
    /\ \E tx \in IncrementalTx :
           IF tx.ok
           THEN /\ track' = tx.track
                /\ scan_results' = tx.scan_results
                /\ res' = tx.res
                /\ new_tracks' = tx.new_tracks
                /\ pc' = "prepare"
                /\ ret' = ret
           ELSE /\ ret' = Err("SqliteError")
                /\ pc' = "scan_returned"
                /\ UNCHANGED <<track, scan_results, res, new_tracks>>
    /\ UNCHANGED <<library, playlist_tracks, env, lib, full_rescan,
                   pre_track, pre_playlist, inserted, walked, unresolved, lock, last_incr>>
    /\ UNCHANGED reader

(***************************************************************************)
(* self.conn.prepare of the INSERT INTO track statement, before the loop.  *)
(***************************************************************************)
PrepareInsert ==
    /\ pc = "prepare"
    /\ pc' = "insert"
    /\ UNCHANGED <<db, env, locals, lock, ret, last_incr>>
    /\ UNCHANGED reader

PrepareInsertFails ==
    /\ pc = "prepare"
    /\ ret' = Err("SqliteError")
    /\ pc' = "scan_returned"
    /\ UNCHANGED <<db, env, locals, lock, last_incr>>
    /\ UNCHANGED reader

SkipNotMedia ==
    /\ pc = "insert"
    /\ new_tracks # <<>>
    /\ Extract(Head(new_tracks)) = None
    /\ new_tracks' = Tail(new_tracks)
    /\ pc' = ExtractFailed(ret).pc
    /\ ret' = ExtractFailed(ret).ret
    /\ UNCHANGED <<db, env, lib, full_rescan, res, pre_track, pre_playlist,
                   inserted, walked, unresolved, lock, last_incr>>
    /\ UNCHANGED reader

InsertTrack ==
    /\ pc = "insert"
    /\ new_tracks # <<>>
    /\ Extract(Head(new_tracks)) # None
    /\ \E id \in NextTrackIds(track, PendingMedia(Tail(new_tracks))) :
          /\ track' = track \cup
                {NewTrackRow(id, lib, Head(new_tracks), Extract(Head(new_tracks))[1])}
          /\ inserted' = inserted \cup {id}
    /\ new_tracks' = Tail(new_tracks)
    /\ UNCHANGED <<library, playlist_tracks, scan_results, env, pc, lib, full_rescan, res,
                   ret, pre_track, pre_playlist, walked, unresolved, lock, last_incr>>
    /\ UNCHANGED reader

InsertTrackFails ==
    /\ pc = "insert"
    /\ new_tracks # <<>>
    /\ Extract(Head(new_tracks)) # None
    /\ ret' = Err("SqliteError")
    /\ pc' = "scan_returned"
    /\ UNCHANGED <<db, env, locals, lock, last_incr>>
    /\ UNCHANGED reader

FinishScan ==
    /\ pc = "insert"
    /\ new_tracks = <<>>
    /\ ret' = Ok(res)
    /\ pc' = "scan_returned"
    /\ UNCHANGED <<db, env, locals, lock, last_incr>>
    /\ UNCHANGED reader

(***************************************************************************)
(* The caller takes the returned value; the handle is free again.          *)
(***************************************************************************)
Returned(noted) ==
    /\ pc \in {"scan_returned", "add_returned"}
    /\ last_incr' = IF noted /\ pc = "scan_returned" /\ ~full_rescan
                    THEN Some(<<lib.id, walked # None, ret.ok>>) ELSE None
    /\ pc' = "idle"
    /\ lib' = SentinelLibrary
    /\ full_rescan' = FALSE
    /\ new_tracks' = <<>>
    /\ res' = <<>>
    /\ ret' = NoReturn
    /\ pre_track' = {}
    /\ pre_playlist' = {}
    /\ inserted' = {}
    /\ walked' = None
    /\ unresolved' = None
    /\ writers' = {}
    /\ UNCHANGED <<db, env>>
    /\ UNCHANGED reader

Return == Returned(FALSE)

ReturnNoting == Returned(TRUE)

(***************************************************************************)
(* After a panic the process is gone; the next run opens data.sq3 again.   *)
(* The temporary table went with the connection.                           *)
(***************************************************************************)
Restart ==
    /\ pc = "panicked"
    /\ scan_results' = None
    /\ pc' = "idle"
    /\ unresolved' = None
    /\ writers' = {}
    /\ UNCHANGED <<library, track, playlist_tracks, env, lib, full_rescan, new_tracks, res,
                   ret, pre_track, pre_playlist, inserted, walked, last_incr>>
    /\ UNCHANGED reader

(***************************************************************************)
(* The world around the engine: the file system changes, the higher layer  *)
(* adds playlist entries and rates tracks.                                 *)
(***************************************************************************)
WriteFile(p, k) ==
    /\ pc = "idle"
    /\ fs[p] # k
    /\ fs' = [fs EXCEPT ![p] = k]
    /\ last_incr' = None
    /\ UNCHANGED <<db, pc, locals, lock, ret>>
    /\ UNCHANGED reader

AddToPlaylist(pl, id) ==
    /\ pc = "idle"
    /\ \E t \in track : t.id = id
    /\ Cardinality(playlist_tracks) < MaxMemberships
    /\ playlist_tracks' = playlist_tracks \cup {[playlist_id |-> pl, track_id |-> id]}
    /\ playlist_tracks' # playlist_tracks
    /\ last_incr' = None
    /\ UNCHANGED <<library, track, scan_results, env, pc, locals, lock, ret>>
    /\ UNCHANGED reader

RateTrack(id, r) ==
    /\ pc = "idle"
    /\ \E t \in track : t.id = id /\ t.path \in RatedPaths
    /\ Cardinality({t \in track : t.rating # None}) < MaxRated
    /\ track' = {IF t.id = id THEN [t EXCEPT !.rating = Some(r)] ELSE t : t \in track}
    /\ last_incr' = None
    /\ UNCHANGED <<library, playlist_tracks, scan_results, env, pc, locals, lock, ret>>
    /\ UNCHANGED reader

Engine(C) ==
    \/ \E c \in C, path \in LibraryRoots, name \in Names : AddLibrary(c, path, name)
    \/ \E c \in C, path \in LibraryRoots, name \in Names : AddLibraryReadFails(c, path, name)
    \/ \E c \in C, path \in LibraryRoots, name \in Names : AddLibraryFails(c, path, name)
    \/ \E c \in C, l \in library : ScanLibraryFull(c, l)
    \/ \E c \in C, l \in library : ScanLibraryFullFails(c, l)
    \/ \E c \in C, l \in library : ScanLibraryIncremental(c, l)
    \/ WalkLibrary
    \/ WalkLibraryFails
    \/ WalkLibraryPanics
    \/ RemoveDuplicates
    \/ PrepareInsert
    \/ PrepareInsertFails
    \/ SkipNotMedia
    \/ InsertTrack
    \/ InsertTrackFails
    \/ FinishScan
    \/ Restart

Step ==
    \/ Engine({MainCaller})
    \/ \E p \in Paths : \E k \in FileKinds(p) : WriteFile(p, k)
    \/ \E pl \in Playlists, id \in 1..MaxTrackId : AddToPlaylist(pl, id)
    \/ \E id \in 1..MaxTrackId, r \in UserRatings : RateTrack(id, r)

Next == Step \/ Return

Spec == Init /\ [][Next]_vars

(***************************************************************************)
(* The same program, with each returned incremental scan noted in          *)
(* last_incr until the next call or change.                                *)
(***************************************************************************)
NextNoting == Step \/ ReturnNoting

SpecNoting == Init /\ [][NextNoting]_vars

(***************************************************************************)
(* The engine behind Arc<RwLock<Database>>, with two threads calling it.   *)
(***************************************************************************)
NextShared ==
    \/ Engine(Callers)
    \/ \E p \in Paths : \E k \in FileKinds(p) : WriteFile(p, k)
    \/ Return

SpecShared == Init /\ [][NextShared]_vars

(***************************************************************************)
(* struct Track, enum TrackField, and the Track values read here           *)
(***************************************************************************)
TrackField == {"Path", "Title", "Artist", "Album", "Comment", "Genre", "Year",
               "Track", "Length", "Bitrate", "Samplerate", "Rating"}

TrackValues ==
    [id : {1}, library_id : {2}, path : {"/m/a"},
     title : {None, Some("Song")}, artist : {Some("Band")}, album : {None},
     comment : {Some("live")}, genre : {None, Some("Rock")},
     year : {None, Some(1999)}, track : {None, Some(7)},
     length : {215}, bitrate : {320}, samplerate : {44100},
     rating : {None, Some(5)}]

(***************************************************************************)
(* i32::to_string, Option::unwrap_or_default, Option::unwrap_or            *)
(***************************************************************************)
Digits == <<"0", "1", "2", "3", "4", "5", "6", "7", "8", "9">>

RECURSIVE NatToString(_)
NatToString(n) ==
    IF n < 10 THEN Digits[n + 1] ELSE NatToString(n \div 10) \o Digits[(n % 10) + 1]

to_string(i) == IF i < 0 THEN "-" \o NatToString(0 - i) ELSE NatToString(i)

UnwrapOrDefault(o) == IF o = None THEN "" ELSE o[1]
UnwrapOr(o, d) == IF o = None THEN d ELSE o[1]
MapToString(o) == IF o = None THEN None ELSE Some(to_string(o[1]))

(***************************************************************************)
(* Track::get_field_as_string                                              *)
(***************************************************************************)
get_field_as_string(t, field) ==
    CASE field = "Path"       -> t.path
      [] field = "Title"      -> UnwrapOrDefault(t.title)
      [] field = "Artist"     -> UnwrapOrDefault(t.artist)
      [] field = "Album"      -> UnwrapOrDefault(t.album)
      [] field = "Comment"    -> UnwrapOrDefault(t.comment)
      [] field = "Genre"      -> UnwrapOrDefault(t.genre)
      [] field = "Year"       -> UnwrapOr(MapToString(t.year), "")
      [] field = "Track"      -> UnwrapOr(MapToString(t.year), "")
      [] field = "Length"     -> to_string(t.length)
      [] field = "Bitrate"    -> to_string(t.bitrate)
      [] field = "Samplerate" -> to_string(t.samplerate)
      [] field = "Rating"     -> to_string(UnwrapOr(t.rating, 0 - 1))

(***************************************************************************)
(* Track::path, title, artist, album, comment, genre, year, track, length, *)
(* bitrate, samplerate, rating                                             *)
(***************************************************************************)
TrackAccessor(t, field) ==
    CASE field = "Path"       -> t.path
      [] field = "Title"      -> t.title
      [] field = "Artist"     -> t.artist
      [] field = "Album"      -> t.album
      [] field = "Comment"    -> t.comment
      [] field = "Genre"      -> t.title
      [] field = "Year"       -> t.year
      [] field = "Track"      -> t.track
      [] field = "Length"     -> t.length
      [] field = "Bitrate"    -> t.bitrate
      [] field = "Samplerate" -> t.samplerate
      [] field = "Rating"     -> t.rating

(***************************************************************************)
(* The user interface takes a Track of dump_all_tracks and reads its       *)
(* fields.                                                                 *)
(***************************************************************************)
DumpTrack(t) ==
    /\ pc = "idle"
    /\ read_track' = Some(t)
    /\ read_out' = None
    /\ UNCHANGED <<db, env, pc, locals, lock, ret, last_incr>>

GetFieldAsString(field) ==
    /\ read_track # None
    /\ read_out' = Some([call |-> "get_field_as_string", field |-> field,
                         value |-> get_field_as_string(read_track[1], field)])
    /\ UNCHANGED <<db, env, pc, locals, lock, ret, last_incr, read_track>>

ReadAccessor(field) ==
    /\ read_track # None
    /\ read_out' = Some([call |-> "accessor", field |-> field,
                         value |-> TrackAccessor(read_track[1], field)])
    /\ UNCHANGED <<db, env, pc, locals, lock, ret, last_incr, read_track>>

NextFields ==
    \/ \E t \in TrackValues : DumpTrack(t)
    \/ \E field \in TrackField : GetFieldAsString(field)
    \/ \E field \in TrackField : ReadAccessor(field)

SpecFields == Init /\ [][NextFields]_vars

(***************************************************************************)
(* Vocabulary of the properties below, read off the state directly.        *)
(***************************************************************************)
Scanning == pc \in {"walk", "dedup", "prepare", "insert", "scan_returned"}
ScanReturned == pc = "scan_returned"
ScanSucceeded == pc = "scan_returned" /\ ret.ok
WalkCompleted == walked # None
Walked == IF walked = None THEN {} ELSE walked[1]
IsMedia(p) == fs[p] \in Tags
StoredBefore == TracksOf(pre_track, lib.id)
StoredNow == TracksOf(track, lib.id)
InsertedByScan == {t \in track : t.id \in inserted}
DeletedByScan == {t \in pre_track : t \notin track \/ t.id \in inserted}
Content(t) == [path |-> t.path, tag |-> t.tag, rating |-> t.rating]
FreshContent(p) == [path |-> p, tag |-> fs[p], rating |-> None]

(***************************************************************************)
(* C1: in every state, also between the steps of a scan and after a failed *)
(* scan, every playlist membership row references the id of an existing    *)
(* track row.                                                              *)
(***************************************************************************)
C1_NoDanglingMembership ==
    \A m \in playlist_tracks : \E t \in track : t.id = m.track_id

C1_Witness ==
    /\ Scanning
    /\ \E m \in pre_playlist : \E t \in StoredBefore : t.id = m.track_id /\ t \notin track

(***************************************************************************)
(* C2: when two incremental scans of the same library return one after the *)
(* other with nothing in between, both having walked the root, both        *)
(* succeeded, the second returned no removed path and left table track as  *)
(* it was.                                                                 *)
(***************************************************************************)
C2_IncrementalTwice ==
    (/\ ScanReturned /\ ~full_rescan /\ WalkCompleted
     /\ last_incr # None /\ last_incr[1][1] = lib.id /\ last_incr[1][2])
    => (last_incr[1][3] /\ ret.ok /\ ret.val = <<>> /\ track = pre_track)

(***************************************************************************)
(* C3: when a scan of library L has returned success, the paths of L's     *)
(* track rows are exactly the walked paths that hold readable media.       *)
(***************************************************************************)
C3_ScanConverges ==
    ScanSucceeded => PathsOf(track, lib.id) = {p \in Walked : IsMedia(p)}

C3_Witness ==
    /\ ScanSucceeded
    /\ InsertedByScan # {}
    /\ \E p \in Walked : ~IsMedia(p)
    /\ \E t \in track : t.library_id # lib.id

(***************************************************************************)
(* C4: when an incremental scan of L that walked the set W has returned,   *)
(* the track rows it deleted are exactly L's rows whose path is not in W,  *)
(* and L's rows whose path is in W are unchanged.                          *)
(***************************************************************************)
C4_IncrementalDeletesMissing ==
    (ScanReturned /\ ~full_rescan /\ WalkCompleted)
    => /\ DeletedByScan = {t \in StoredBefore : t.path \notin Walked}
       /\ \A t \in StoredBefore : t.path \in Walked => t \in track /\ t.id \notin inserted

(***************************************************************************)
(* C5: when a full rescan of L has returned success, no row of table track *)
(* has the id of a row that L held before the scan, and L's rows are one   *)
(* freshly extracted row (current metadata, no rating) per walked media    *)
(* path, also where the path was stored before.                            *)
(***************************************************************************)
C5_FullRescanWipes ==
    (ScanSucceeded /\ full_rescan)
    => /\ {t.id : t \in StoredBefore} \cap {t.id : t \in track} = {}
       /\ StoredNow = {t \in InsertedByScan : t.library_id = lib.id}
       /\ {Content(t) : t \in StoredNow} = {FreshContent(p) : p \in {q \in Walked : IsMedia(q)}}
       /\ Cardinality(StoredNow) = Cardinality({q \in Walked : IsMedia(q)})

(***************************************************************************)
(* C6: when a scan has returned the walk's error, tables track and         *)
(* playlist_tracks are as they were when the scan was called.              *)
(***************************************************************************)
C6_WalkFailureCommitsNothing ==
    (ScanReturned /\ ret.err = "WalkDirError")
    => (track = pre_track /\ playlist_tracks = pre_playlist)

(***************************************************************************)
(* C7: when a scan has returned an error, no track row inserted by that    *)
(* scan is in table track.                                                 *)
(***************************************************************************)
C7_InsertBatchAtomic ==
    (ScanReturned /\ ~ret.ok) => InsertedByScan = {}

(***************************************************************************)
(* C8: in every state of a running or returned scan of L, L's committed    *)
(* track rows are either the rows L had when the scan was called or the    *)
(* complete result of the scan: the kept rows and one new row per media    *)
(* file to add.                                                            *)
(***************************************************************************)
C8_KeptRows == IF full_rescan THEN {} ELSE {t \in StoredBefore : t.path \in WalkFiles(lib.path)}
C8_CompletePaths ==
    {t.path : t \in C8_KeptRows} \cup {p \in WalkFiles(lib.path) : IsMedia(p)}

C8_ScanAllOrNothing ==
    Scanning
    => \/ StoredNow = StoredBefore
       \/ /\ StoredNow \cap StoredBefore = C8_KeptRows
          /\ PathsOf(track, lib.id) = C8_CompletePaths

(***************************************************************************)
(* C9: when a scan of L has returned success, the returned list holds,     *)
(* each once, exactly the paths that L had a track for before the scan and *)
(* has none for after it.                                                  *)
(***************************************************************************)
C9_ReturnsRemovedPaths ==
    ScanSucceeded
    => /\ SeqToSet(ret.val) = PathsOf(pre_track, lib.id) \ PathsOf(track, lib.id)
       /\ Len(ret.val) = Cardinality(SeqToSet(ret.val))

(***************************************************************************)
(* C10: no row a scan inserts has the path of a file that is not media,    *)
(* and a returned removed-path list names only paths that had a track of   *)
(* the library before the scan, never a walked file that is not media and  *)
(* was not in the catalog.                                                 *)
(***************************************************************************)
C10_NotMediaNeverCatalogued ==
    Scanning
    => /\ \A t \in InsertedByScan : IsMedia(t.path)
       /\ ScanSucceeded => \A p \in SeqToSet(ret.val) : p \in PathsOf(pre_track, lib.id)

C10_Witness ==
    /\ ScanSucceeded
    /\ InsertedByScan # {}
    /\ \E p \in Walked : fs[p] = "junk" /\ p \notin PathsOf(track, lib.id)

(***************************************************************************)
(* C11: when the canonical-path resolution of a walked entry has failed,   *)
(* the scan is not aborted and returns no error for it: the walk completes *)
(* and has collected every other regular file under the root.              *)
(***************************************************************************)
C11_UnresolvedEntrySkipped ==
    unresolved # None
    => /\ pc # "panicked"
       /\ ~(ScanReturned /\ ret.err = "WalkDirError")
       /\ WalkCompleted /\ Walked = WalkFiles(lib.path) \ {unresolved[1]}

(***************************************************************************)
(* C12: in the insert loop of a scan and after it, every candidate path    *)
(* the loop has passed that holds media has its row inserted, whatever     *)
(* failed to extract before it; the only error such a scan returns is the  *)
(* storage error, and once the loop has passed every candidate of a        *)
(* non-empty walk the scan has returned success.                           *)
(***************************************************************************)
C12_InLoop == pc = "insert" \/ (ScanReturned /\ WalkCompleted /\ (full_rescan \/ ret.ok))
C12_Passed == Walked \ SeqToSet(new_tracks)

C12_ExtractionFailureSkipped ==
    C12_InLoop
    => /\ \A p \in C12_Passed :
             (IsMedia(p) /\ (full_rescan \/ p \notin PathsOf(pre_track, lib.id)))
             => \E t \in InsertedByScan : t.path = p /\ t.library_id = lib.id
       /\ (ScanReturned /\ ~ret.ok) => ret.err = "SqliteError"
       /\ (ScanReturned /\ Walked # {} /\ new_tracks = <<>>) => ret.ok

C12_Witness ==
    /\ ScanSucceeded
    /\ \E p \in Walked : /\ fs[p] = "junk"
                         /\ \E t \in InsertedByScan : t.path # p

(***************************************************************************)
(* C13: with two threads calling through the shared handle, at every step  *)
(* of a scan exactly one caller is inside scan_library: a second           *)
(* invocation starts only after the running one has returned.              *)
(***************************************************************************)
C13_ScansNeverOverlap ==
    /\ Cardinality(writers) <= 1
    /\ Scanning => writers # {}

C13_Witness ==
    /\ pc = "insert"
    /\ writers = {"worker"}
    /\ StoredBefore # {}

(***************************************************************************)
(* C14: a scan called on a library whose path() is None walks nothing and  *)
(* changes nothing: no walk of it completes or fails, and tables track and *)
(* playlist_tracks stay as they were at the call.                          *)
(***************************************************************************)
C14_SentinelNeverScanned ==
    (Scanning /\ LibraryPath(lib) = None)
    => /\ ~WalkCompleted
       /\ ret.err # "WalkDirError"
       /\ track = pre_track
       /\ playlist_tracks = pre_playlist

(***************************************************************************)
(* C15: when add_library has returned success, the Library it returned is  *)
(* the row that call inserted, the row with the newest id of table         *)
(* library.                                                                *)
(***************************************************************************)
C15_InsertedRow == CHOOSE l \in library : \A m \in library : m.id <= l.id

C15_AddLibraryReturnsInsertedId ==
    (pc = "add_returned" /\ ret.ok) => ret.val = C15_InsertedRow

(***************************************************************************)
(* C16: every track row a scan has inserted has no rating, and in an       *)
(* incremental scan every row that was there at the call and is still      *)
(* there has the rating it had.                                            *)
(***************************************************************************)
C16_ScanLeavesRatings ==
    Scanning
    => /\ \A t \in InsertedByScan : t.rating = None
       /\ ~full_rescan
             => \A u \in pre_track : \A t \in track :
                   (t.id = u.id /\ t.id \notin inserted) => t.rating = u.rating

C16_Witness ==
    /\ ScanSucceeded
    /\ \E u \in StoredBefore : \E t \in InsertedByScan :
          u.rating # None /\ t.path = u.path

(***************************************************************************)
(* C17: in every state of a running or returned scan of library L, the     *)
(* track rows of the other libraries are the rows they were at the call.   *)
(***************************************************************************)
C17_OtherLibrariesUntouched ==
    Scanning
    => {t \in track : t.library_id # lib.id} = {t \in pre_track : t.library_id # lib.id}

C17_Witness ==
    /\ Scanning
    /\ \E t \in StoredBefore : \E u \in track :
          t \in DeletedByScan /\ u.library_id # lib.id /\ u.path = t.path

(***************************************************************************)
(* C18: in every state of a running or returned full rescan of L, every    *)
(* membership row that referenced a track of another library at the call   *)
(* is still there, and once the wipe is committed no membership row        *)
(* references a track L had at the call.                                   *)
(***************************************************************************)
C18_IdsBefore == {t.id : t \in StoredBefore}

C18_FullRescanDeletesOwnMemberships ==
    (Scanning /\ full_rescan)
    => /\ \A m \in pre_playlist : m.track_id \notin C18_IdsBefore => m \in playlist_tracks
       /\ pc = "walk" => \A m \in playlist_tracks : m.track_id \notin C18_IdsBefore

(***************************************************************************)
(* C19: the step that ends the incremental transaction of a scan of L with *)
(* paths left to add goes on to the insert step, and the paths it hands to *)
(* the loop for extraction are exactly the walked paths that L had no      *)
(* track for, whatever the other libraries hold.                           *)
(***************************************************************************)
C19_Candidates == Walked \ PathsOf(pre_track, lib.id)

C19_CandidatesAreWalkedMinusStored ==
    [][(pc = "dedup" /\ C19_Candidates # {})
       => (pc' = "prepare" /\ SeqToSet(new_tracks') = C19_Candidates)]_vars

(***************************************************************************)
(* C20: in every state, two track rows of the same library with the same   *)
(* path are the same row.                                                  *)
(***************************************************************************)
C20_PathUniquePerLibrary ==
    \A t \in track : \A u \in track :
        (t.library_id = u.library_id /\ t.path = u.path) => t = u

C20_Witness ==
    /\ ScanSucceeded
    /\ \E t \in StoredBefore : \E u \in InsertedByScan : u.path = t.path
    /\ \E t \in track : t.library_id # lib.id /\ t.path \in PathsOf(track, lib.id)

(***************************************************************************)
(* C21: in an incremental scan of a library with a root, the step that     *)
(* runs the diff-and-delete transaction on a store that raises no failure  *)
(* (the model has no I/O or constraint failure in that transaction) never  *)
(* returns an error: the scan goes on to its insert step.                  *)
(***************************************************************************)
C21_IncrementalScanSucceeds ==
    [][(pc = "dedup" /\ ~full_rescan /\ LibraryPath(lib) # None)
       => ~(pc' = "scan_returned" /\ ~ret'.ok)]_vars

(***************************************************************************)
(* C22: every read of a field of a Track returns the stored field of that  *)
(* name: the accessor returns its value, get_field_as_string its text,     *)
(* with an absent value as the empty string and an absent rating as -1.    *)
(***************************************************************************)
C22_Stored(t, field) ==
    CASE field = "Path"       -> t.path
      [] field = "Title"      -> t.title
      [] field = "Artist"     -> t.artist
      [] field = "Album"      -> t.album
      [] field = "Comment"    -> t.comment
      [] field = "Genre"      -> t.genre
      [] field = "Year"       -> t.year
      [] field = "Track"      -> t.track
      [] field = "Length"     -> t.length
      [] field = "Bitrate"    -> t.bitrate
      [] field = "Samplerate" -> t.samplerate
      [] field = "Rating"     -> t.rating

C22_Rendered(field, v) ==
    CASE field = "Path" -> v
      [] field \in {"Title", "Artist", "Album", "Comment", "Genre"} ->
            IF v = None THEN "" ELSE v[1]
      [] field \in {"Year", "Track"} -> IF v = None THEN "" ELSE NatToString(v[1])
      [] field \in {"Length", "Bitrate", "Samplerate"} -> NatToString(v)
      [] field = "Rating" -> IF v = None THEN "-1" ELSE NatToString(v[1])

C22_FieldsReadBack ==
    read_out # None
    => LET o == read_out[1]
           stored == C22_Stored(read_track[1], o.field)
       IN  IF o.call = "accessor"
           THEN o.value = stored
           ELSE o.value = C22_Rendered(o.field, stored)

====
